---------------------------- MODULE Spec2Model ----------------------------
(***************************************************************************)
(* The ReAct agent of language_models/agent/agent.py as a state machine.   *)
(*                                                                         *)
(* One Agent instance: its configuration (iterations, tools, llm.model,    *)
(* llm.max_tokens), its Chat (messages, steps, chain_of_thought), and the  *)
(* invoke calls made on it, numbered 1, 2, ... in the order they start.    *)
(* Every message and reasoning step carries the number of the call that    *)
(* wrote it (0: Agent.create).  An invoke call advances from one blocking     *)
(* collaborator call to the next: Invoke (lines 121-128), the loop head    *)
(* with _trim_conversation (129-130), llm.get_completion (131),            *)
(* _parse_output and the recording of its result (133-177), tool.invoke    *)
(* (161-173), the observation and chat.update (179-181), and the fallback  *)
(* answer (183-200).  The local variables of invoke live in the caller's   *)
(* frame and start afresh with each call.                                  *)
(*                                                                         *)
(* Text is a sequence of words (strings); the tokenizer yields one token   *)
(* per word.  Python values are tagged sequences <<type, repr>>.           *)
(***************************************************************************)
EXTENDS Integers, Sequences, FiniteSets, TLC

\* ------------------------------------------------------------------ bounds
\* Largest configured Agent.iterations explored.
MaxIterations == 1
\* Number of invoke calls made on the one agent instance.
MaxInvokes == 2

\* The callers of invoke: each makes one call at a time.
Threads == {"t1", "t2"}

\* ------------------------------------------------------- python values, text
None == <<"NoneType">>
PyInt(digits) == <<"int", digits>>

\* A rendering that gives the empty text for None.
StrNoneAsEmpty(value) == IF value = None THEN "" ELSE value[2]

\* str(value): the text Python's str() gives for a value.
Str(value) == IF value = None THEN "None" ELSE value[2]

RECURSIVE Join(_, _)
\* sep.join(parts) for a sequence of words: the words with sep between them.
Join(sep, parts) ==
    IF Len(parts) = 0 THEN <<>>
    ELSE IF Len(parts) = 1 THEN <<parts[1]>>
    ELSE <<parts[1], sep>> \o Join(sep, Tail(parts))

RECURSIVE Flatten(_)
\* The words of a sequence of texts, in order.
Flatten(texts) ==
    IF Len(texts) = 0 THEN <<>> ELSE Head(texts) \o Flatten(Tail(texts))

\* ------------------------------------------------------------ token budget
\* _MODEL_TOKEN_LIMIT
ModelTokenLimit(model) ==
    CASE model = "gpt-4" -> 8192
      [] model = "gpt-4-32k" -> 32768
      [] model = "gpt-35-turbo" -> 4096
      [] model = "gpt-35-turbo-16k" -> 16385

\* len(encoding.encode(value)): one token per word of the text.
EncodeLen(text) == Len(text)

RECURSIVE NumTokensFromMessages(_)
\* num_tokens_from_messages: 4 per message, plus the encoded length of every
\* dumped field (role, content), plus 2 overall.  ChatMessage dumps no "name".
NumTokensFromMessages(msgs) ==
    IF Len(msgs) = 0 THEN 2
    ELSE 4 + EncodeLen(<<Head(msgs).role>>) + EncodeLen(Head(msgs).content)
           + NumTokensFromMessages(Tail(msgs))

\* A trim that deletes messages[0] instead.
DelIndex0(msgs) == Tail(msgs)

\* del messages[1] (0-based): the list without its second element.
DelIndex1(msgs) == <<msgs[1]>> \o SubSeq(msgs, 3, Len(msgs))

\* The loop condition of _trim_conversation.
OverBudget(msgs, maxTokens, model) ==
    NumTokensFromMessages(msgs) + maxTokens >= ModelTokenLimit(model)


RECURSIVE TrimConversation(_, _, _)
\* _trim_conversation: while over budget delete messages[1]; deleting from a
\* list of fewer than two messages raises IndexError and leaves it as it is.
TrimConversation(msgs, maxTokens, model) ==
    IF ~OverBudget(msgs, maxTokens, model)
    THEN [messages |-> msgs, error |-> "none"]
    ELSE IF Len(msgs) < 2
         THEN [messages |-> msgs, error |-> "IndexError"]
         ELSE TrimConversation(DelIndex1(msgs), maxTokens, model)

\* ------------------------------------------------------------- collaborators
\* Raw texts the model-completion collaborator may return.
RawOutputs == {"garbage", "badtype", "final", "use_search", "use_bogus", "boom"}

NoOutput == [kind |-> "none", thought |-> "", final_answer |-> None,
             tool |-> "", tool_input |-> ""]

\* AgentOutputParser.parse: the parsed output, or the error it raises.
Parse(raw) ==
    CASE raw = "garbage" ->
           [error |-> "ValueError", message |-> "invalid-format", output |-> NoOutput]
      [] raw = "badtype" ->
           [error |-> "TypeError", message |-> "wrong-type", output |-> NoOutput]
      [] raw = "boom" ->
           [error |-> "KeyError", message |-> "missing-key", output |-> NoOutput]
      [] raw = "final" ->
           [error |-> "none", message |-> "",
            output |-> [kind |-> "final", thought |-> "I-know", final_answer |-> PyInt("42"),
                        tool |-> "", tool_input |-> ""]]
      [] raw = "use_search" ->
           [error |-> "none", message |-> "",
            output |-> [kind |-> "tool_use", thought |-> "look-up", final_answer |-> None,
                        tool |-> "search", tool_input |-> "query"]]
      [] raw = "use_bogus" ->
           [error |-> "none", message |-> "",
            output |-> [kind |-> "tool_use", thought |-> "guess", final_answer |-> None,
                        tool |-> "bogus", tool_input |-> "query"]]

\* A _parse_output that catches ValueError alone.
RecoverableValueErrorOnly(error) == error = "ValueError"

\* A _parse_output that catches every exception.
RecoverableAnyError(error) == TRUE

\* The except clauses of _parse_output.
Recoverable(error) == error \in {"ValueError", "TypeError"}

\* Tool.invoke(tool_input): the text a registered tool returns.
ToolResponse(tool, tool_input) == "hits"

\* ------------------------------------------------------------- configuration
\* Agent.tools: None, or the name-keyed registry in insertion order.
ToolConfigs == {[present |-> FALSE, names |-> <<>>],
                [present |-> TRUE, names |-> <<"search", "calc">>]}

\* llm.model and llm.max_tokens; the head room left for the log is
\* 12, 20, 30, 45 and 60 tokens.
LLMConfigs == {[model |-> "gpt-4", max_tokens |-> 8180],
               [model |-> "gpt-35-turbo", max_tokens |-> 4076],
               [model |-> "gpt-4-32k", max_tokens |-> 32738],
               [model |-> "gpt-35-turbo-16k", max_tokens |-> 16340],
               [model |-> "gpt-4", max_tokens |-> 8132]}

\* output_parser.output_type: the types the fallback answer tells apart.
OutputTypes == {"STRUCT"}

\* Every kind of output type: plain ones, structured ones, schema classes.
AllOutputTypes == {"STRING", "INT", "DATE", "TIMESTAMP", "NONE", "STRUCT",
                   "ARRAY_STRUCT", "OBJECT", "ARRAY_OBJECT"}

\* The inputs mapping handed to the c-th invoke: the value of the prompt
\* variable, or "absent" when the mapping lacks it.
Inputs(c) == IF c % 2 = 1 THEN {"alpha"} ELSE {"absent"}

\* self.prompt.format(**{v: prompt.get(v)}): a missing variable formats as None.
FormatPrompt(input) ==
    <<"Question:", IF input = "absent" THEN Str(None) ELSE input>>

\* The system message Agent.create seeds the chat with.
SystemMessage ==
    [role |-> "system",
     content |-> Join("\n\n", <<"system-prompt", "instructions", "answer-format">>),
     by |-> 0]

\* A lookup that finds every name once tools are configured.
RegisteredAnyName(registry, name) == registry.present

\* tools.get(name) is not None
Registered(registry, name) ==
    registry.present /\ \E i \in 1..Len(registry.names) : registry.names[i] = name

\* An observation that leaves out the registered names.
UnknownToolObservationNoNames(name, registry) ==
    <<name, "tool doesn't exist. Try one of these tools:">>

\* The observation for a tool name the registry lacks.
UnknownToolObservation(name, registry) ==
    <<name, "tool doesn't exist. Try one of these tools:">> \o Join(", ", registry.names)

\* A loop that runs one iteration more.
LoopConditionOneMore(iter, iters) == iter <= iters + 1

\* A loop that runs one iteration less.
LoopConditionOneLess(iter, iters) == iter < iters

\* while iteration <= self.iterations
LoopCondition(iter, iters) == iter <= iters

\* ---------------------------------------------------------------- the state
VARIABLES
    iterations,        \* Agent.iterations
    tools,             \* Agent.tools
    llm,               \* Agent.llm: model and max_tokens
    output_type,       \* Agent.output_parser.output_type
    messages,          \* chat.messages
    steps,             \* chat.steps
    chain_of_thought,  \* chat.chain_of_thought
    calls,             \* invoke calls started so far
    pc,                \* where each caller's invoke call stands
    id,                \* the number of each caller's current call
    iteration,         \* invoke's local iteration
    prompt,            \* invoke's local prompt (formatted)
    output,            \* invoke's local output (raw text, then parsed)
    observation,       \* invoke's local observation
    returned,          \* the AgentOutput the call returned
    raised,            \* the error the call ended with
    llm_calls,         \* get_completion calls made by the call
    tool_calls,        \* tool.invoke calls made by the call
    llm_input,         \* the messages handed to the call's latest get_completion
    trimmed,           \* messages the call's latest _trim_conversation deleted
    events,            \* what each iteration of the call was, oldest first
    overlap            \* did the call run while another call of the instance ran

config == <<iterations, tools, llm, output_type>>
chat == <<messages, steps, chain_of_thought>>
frame == <<pc, id, iteration, prompt, output, observation, returned, raised,
           llm_calls, tool_calls, llm_input, trimmed, events, overlap>>
vars == <<config, chat, calls, frame>>

NoReturn == [kind |-> "none", prompt |-> <<>>, final_answer |-> None,
             chain_of_thought |-> <<>>]
NoError == [error |-> "none", from |-> "none"]
NoRaw == [raw |-> "", parsed |-> NoOutput]

\* Agent.create with the llm among llms and the output type among types:
\* the chat holds the system message alone; no call was made.
InitWith(llms, types) ==
    /\ iterations \in 0..MaxIterations
    /\ tools \in ToolConfigs
    /\ llm \in llms
    /\ output_type \in types
    /\ messages = <<SystemMessage>>
    /\ steps = <<>>
    /\ chain_of_thought = <<>>
    /\ calls = 0
    /\ pc = [t \in Threads |-> "idle"]
    /\ id = [t \in Threads |-> 0]
    /\ iteration = [t \in Threads |-> 0]
    /\ prompt = [t \in Threads |-> <<>>]
    /\ output = [t \in Threads |-> NoRaw]
    /\ observation = [t \in Threads |-> <<"None">>]
    /\ returned = [t \in Threads |-> NoReturn]
    /\ raised = [t \in Threads |-> NoError]
    /\ llm_calls = [t \in Threads |-> 0]
    /\ tool_calls = [t \in Threads |-> 0]
    /\ llm_input = [t \in Threads |-> <<>>]
    /\ trimmed = [t \in Threads |-> 0]
    /\ events = [t \in Threads |-> <<>>]
    /\ overlap = [t \in Threads |-> FALSE]

Init == InitWith(LLMConfigs, OutputTypes)

\* ------------------------------------------------------------------ helpers
Message(role, content, c) == [role |-> role, content |-> content, by |-> c]
ReasoningStep(name, content, c) == [name |-> name, content |-> content, by |-> c]

Running(t) == pc[t] \notin {"idle", "done", "raised"}

\* An invoke that starts the log afresh: system message and prompt only.
ResetLogWithUserPrompt(msgs, text, c) == <<msgs[1], Message("user", text, c)>>

\* self.chat.messages.append(ChatMessage(role=USER, content=prompt))
AppendUserPrompt(msgs, text, c) == Append(msgs, Message("user", text, c))

\* An invoke that appends the prompt step to the old chain of thought.
KeepChainOfThought(cot, text, c) == Append(cot, ReasoningStep("prompt", text, c))

\* self.chat.chain_of_thought = [ReasoningStep(name=PROMPT, content=prompt)]
SeedChainOfThought(cot, text, c) == <<ReasoningStep("prompt", text, c)>>

\* self.chat.steps = []
ResetSteps(old) == <<>>

\* Chat.update(prompt): a user message rebuilt from the prompt and the
\* accumulated step summaries is appended to the log.
ChatUpdate(msgs, text, summaries, c) ==
    Append(msgs, Message("user", text \o Flatten(summaries), c))

\* A summary that leaves the observation's text out.
ObservationStepNoText(obs) == <<"Observation:">>

\* f"Observation: {observation}"
ObservationStep(obs) == <<"Observation:">> \o obs

\* The chain-of-thought entry of a successful parse.
ThoughtStep(cot, parsed, c) ==
    Append(cot, ReasoningStep("thought", <<parsed.thought>>, c))

\* A tool-use turn that records no tool step.
ToolStepMissing(cot, parsed, response, c) == cot

\* The chain-of-thought entry of a tool-use turn whose tool is registered.
ToolStep(cot, parsed, response, c) ==
    Append(cot, ReasoningStep("tool", <<parsed.tool, parsed.tool_input, response>>, c))

\* A final-answer turn that records no final-answer step.
FinalAnswerStepMissing(cot, parsed, c) == cot

\* The chain-of-thought entry of a final-answer turn.
FinalAnswerStep(cot, parsed, c) ==
    Append(cot, ReasoningStep("final_answer", <<Str(parsed.final_answer)>>, c))

\* The field names of the declared output schema, in declaration order:
\* model_json_schema()["properties"], or the schema's __annotations__.
SchemaFields == <<"a", "b">>

RECURSIVE NullFields(_)
\* {key: None for key in fields}: every field name followed by None.
NullFields(fields) ==
    IF Len(fields) = 0 THEN <<>>
    ELSE <<Head(fields), Str(None)>> \o NullFields(Tail(fields))

\* A fallback that forgets to wrap the list-of-struct answer in a list.
FallbackAnswerBareMapping(type) ==
    CASE type \in {"STRUCT", "ARRAY_STRUCT"} -> <<"dict">> \o NullFields(SchemaFields)
      [] type = "OBJECT" -> <<"model">> \o NullFields(SchemaFields)
      [] type = "ARRAY_OBJECT" -> <<"list", "model">> \o NullFields(SchemaFields)
      [] OTHER -> None

\* The fallback answer built when the loop ends without a final answer
\* (lines 183-193): a mapping of every field to None, a one-element list of
\* it, an instance of the all-optional model, a one-element list of that, or
\* None.
FallbackAnswer(type) ==
    CASE type = "STRUCT" -> <<"dict">> \o NullFields(SchemaFields)
      [] type = "ARRAY_STRUCT" -> <<"list", "dict">> \o NullFields(SchemaFields)
      [] type = "OBJECT" -> <<"model">> \o NullFields(SchemaFields)
      [] type = "ARRAY_OBJECT" -> <<"list", "model">> \o NullFields(SchemaFields)
      [] OTHER -> None

AgentOutput(kind, text, answer, cot) ==
    [kind |-> kind, prompt |-> text, final_answer |-> answer, chain_of_thought |-> cot]

\* Errors the model-completion collaborator and a tool may raise.
LLMFailures == {"ConnectionError", "ValueError"}
ToolFailures == {"RuntimeError", "TypeError"}

Raise(t, error, where) ==
    /\ pc' = [pc EXCEPT ![t] = "raised"]
    /\ raised' = [raised EXCEPT ![t] = [error |-> error, from |-> where]]

\* ------------------------------------------------------------------ actions
\* invoke, lines 121-128: format the prompt, append it to the log, reseed the
\* chain of thought, clear the steps.
Invoke(t, input) ==
    /\ ~Running(t)
    /\ calls < MaxInvokes
    /\ calls' = calls + 1
    /\ LET text == FormatPrompt(input) IN
        /\ prompt' = [prompt EXCEPT ![t] = text]
        /\ messages' = AppendUserPrompt(messages, text, calls')
        /\ chain_of_thought' = SeedChainOfThought(chain_of_thought, text, calls')
    /\ steps' = ResetSteps(steps)
    /\ id' = [id EXCEPT ![t] = calls']
    /\ iteration' = [iteration EXCEPT ![t] = 0]
    /\ pc' = [pc EXCEPT ![t] = "loop"]
    /\ output' = [output EXCEPT ![t] = NoRaw]
    /\ observation' = [observation EXCEPT ![t] = <<"None">>]
    /\ returned' = [returned EXCEPT ![t] = NoReturn]
    /\ raised' = [raised EXCEPT ![t] = NoError]
    /\ llm_calls' = [llm_calls EXCEPT ![t] = 0]
    /\ tool_calls' = [tool_calls EXCEPT ![t] = 0]
    /\ llm_input' = [llm_input EXCEPT ![t] = <<>>]
    /\ trimmed' = [trimmed EXCEPT ![t] = 0]
    /\ events' = [events EXCEPT ![t] = <<>>]
    /\ overlap' = [u \in Threads |->
                       IF u = t THEN \E v \in Threads \ {t} : Running(v)
                       ELSE overlap[u] \/ Running(u)]
    /\ UNCHANGED config

\* Lines 129-130: the loop is entered and the conversation trimmed.
Trim(t) ==
    /\ pc[t] = "loop"
    /\ LoopCondition(iteration[t], iterations)
    /\ LET result == TrimConversation(messages, llm.max_tokens, llm.model) IN
        /\ messages' = result.messages
        /\ trimmed' = [trimmed EXCEPT ![t] = Len(messages) - Len(result.messages)]
        /\ IF result.error = "none"
           THEN pc' = [pc EXCEPT ![t] = "complete"] /\ UNCHANGED raised
           ELSE Raise(t, result.error, "trim")
    /\ UNCHANGED <<config, steps, chain_of_thought, calls, id, iteration, prompt,
                   output, observation, returned, llm_calls, tool_calls, llm_input,
                   events,
                   overlap>>

\* Line 131: get_completion returns a raw output.
GetCompletion(t, raw) ==
    /\ pc[t] = "complete"
    /\ llm_calls' = [llm_calls EXCEPT ![t] = @ + 1]
    /\ llm_input' = [llm_input EXCEPT ![t] = messages]
    /\ output' = [output EXCEPT ![t] = [raw |-> raw, parsed |-> NoOutput]]
    /\ pc' = [pc EXCEPT ![t] = "parse"]
    /\ UNCHANGED <<config, chat, calls, id, iteration, prompt, observation, returned,
                   raised, tool_calls, events, trimmed,
                   overlap>>

\* Line 131: get_completion raises.
GetCompletionFails(t, error) ==
    /\ pc[t] = "complete"
    /\ llm_calls' = [llm_calls EXCEPT ![t] = @ + 1]
    /\ llm_input' = [llm_input EXCEPT ![t] = messages]
    /\ Raise(t, error, "llm")
    /\ UNCHANGED <<config, chat, calls, id, iteration, prompt, output, observation,
                   returned, tool_calls, events, trimmed,
                   overlap>>

\* Lines 133, 108-117: the parser raises ValueError or TypeError; the error
\* becomes the observation.
ParseFailure(t) ==
    /\ pc[t] = "parse"
    /\ LET p == Parse(output[t].raw) IN
        /\ p.error # "none"
        /\ Recoverable(p.error)
        /\ observation' = [observation EXCEPT ![t] = <<p.message>>]
    /\ events' = [events EXCEPT ![t] = Append(@, "parse_error")]
    /\ pc' = [pc EXCEPT ![t] = "observe"]
    /\ UNCHANGED <<config, chat, calls, id, iteration, prompt, output, returned,
                   raised, llm_calls, tool_calls, llm_input, trimmed,
                   overlap>>

\* Lines 133, 108-117: the parser raises an error _parse_output does not catch.
ParseFatal(t) ==
    /\ pc[t] = "parse"
    /\ LET p == Parse(output[t].raw) IN
        /\ p.error # "none"
        /\ ~Recoverable(p.error)
        /\ Raise(t, p.error, "parser")
    /\ UNCHANGED <<config, chat, calls, id, iteration, prompt, output, observation,
                   returned, llm_calls, tool_calls, llm_input, events, trimmed,
                   overlap>>

\* Lines 135-152: a final answer is recorded and returned.
FinalAnswer(t) ==
    /\ pc[t] = "parse"
    /\ LET p == Parse(output[t].raw) IN
        /\ p.error = "none"
        /\ p.output.kind = "final"
        /\ output' = [output EXCEPT ![t].parsed = p.output]
        /\ steps' = Append(steps, <<"Thought:", p.output.thought>>)
        /\ chain_of_thought' =
               FinalAnswerStep(ThoughtStep(chain_of_thought, p.output, id[t]),
                               p.output, id[t])
        /\ messages' = Append(messages,
                              Message("assistant", <<Str(p.output.final_answer)>>, id[t]))
        /\ returned' = [returned EXCEPT ![t] =
                           AgentOutput("final", prompt[t], p.output.final_answer,
                                       chain_of_thought')]
    /\ events' = [events EXCEPT ![t] = Append(@, "final")]
    /\ pc' = [pc EXCEPT ![t] = "done"]
    /\ UNCHANGED <<config, calls, id, iteration, prompt, observation, raised,
                   llm_calls, tool_calls, llm_input, trimmed,
                   overlap>>

\* Lines 135-138, 154-160, 175-177: a tool-use request; the thought is
\* recorded and the tool looked up.
ToolUse(t) ==
    /\ pc[t] = "parse"
    /\ LET p == Parse(output[t].raw) IN
        /\ p.error = "none"
        /\ p.output.kind = "tool_use"
        /\ output' = [output EXCEPT ![t].parsed = p.output]
        /\ steps' = Append(steps, <<"Thought:", p.output.thought>>)
        /\ chain_of_thought' = ThoughtStep(chain_of_thought, p.output, id[t])
        /\ IF ~tools.present
           THEN /\ observation' = [observation EXCEPT ![t] = <<Str(None)>>]
                /\ events' = [events EXCEPT ![t] = Append(@, "no_tools")]
                /\ pc' = [pc EXCEPT ![t] = "observe"]
           ELSE IF Registered(tools, p.output.tool)
           THEN /\ observation' = [observation EXCEPT ![t] = <<Str(None)>>]
                /\ events' = [events EXCEPT ![t] = Append(@, "tool_use")]
                /\ pc' = [pc EXCEPT ![t] = "tool"]
           ELSE /\ observation' = [observation EXCEPT ![t] =
                                      UnknownToolObservation(p.output.tool, tools)]
                /\ events' = [events EXCEPT ![t] = Append(@, "unknown_tool")]
                /\ pc' = [pc EXCEPT ![t] = "observe"]
    /\ UNCHANGED <<config, messages, calls, id, iteration, prompt, returned, raised,
                   llm_calls, tool_calls, llm_input, trimmed,
                   overlap>>

\* Lines 161-173: the registered tool returns; its response is recorded.
ToolInvoke(t) ==
    /\ pc[t] = "tool"
    /\ tool_calls' = [tool_calls EXCEPT ![t] = @ + 1]
    /\ LET parsed == output[t].parsed
           response == ToolResponse(parsed.tool, parsed.tool_input) IN
        /\ observation' = [observation EXCEPT ![t] = <<"Tool Response:", response>>]
        /\ steps' = steps \o <<(<<"Tool:", parsed.tool>>),
                               (<<"Tool Input:", parsed.tool_input>>)>>
        /\ chain_of_thought' = ToolStep(chain_of_thought, parsed, response, id[t])
    /\ pc' = [pc EXCEPT ![t] = "observe"]
    /\ UNCHANGED <<config, messages, calls, id, iteration, prompt, output, returned,
                   raised, llm_calls, llm_input, events, trimmed,
                   overlap>>

\* Line 161: the registered tool raises.
ToolInvokeFails(t, error) ==
    /\ pc[t] = "tool"
    /\ tool_calls' = [tool_calls EXCEPT ![t] = @ + 1]
    /\ Raise(t, error, "tool")
    /\ UNCHANGED <<config, chat, calls, id, iteration, prompt, output, observation,
                   returned, llm_calls, llm_input, events, trimmed,
                   overlap>>

\* Lines 179-181: the observation is recorded, the chat updated and the
\* iteration counted.
Observe(t) ==
    /\ pc[t] = "observe"
    /\ steps' = Append(steps, ObservationStep(observation[t]))
    /\ messages' = ChatUpdate(messages, prompt[t], steps', id[t])
    /\ iteration' = [iteration EXCEPT ![t] = @ + 1]
    /\ pc' = [pc EXCEPT ![t] = "loop"]
    /\ UNCHANGED <<config, chain_of_thought, calls, id, prompt, output, observation,
                   returned, raised, llm_calls, tool_calls, llm_input, events, trimmed,
                   overlap>>

\* Lines 129, 183-200: the loop condition fails; the fallback answer is
\* built and returned.
BudgetExhausted(t) ==
    /\ pc[t] = "loop"
    /\ ~LoopCondition(iteration[t], iterations)
    /\ returned' = [returned EXCEPT ![t] =
                       AgentOutput("fallback", prompt[t], FallbackAnswer(output_type),
                                   chain_of_thought)]
    /\ pc' = [pc EXCEPT ![t] = "done"]
    /\ UNCHANGED <<config, chat, calls, id, iteration, prompt, output, observation,
                   raised, llm_calls, tool_calls, llm_input, events, trimmed,
                   overlap>>

\* One step of the invoke call a caller has under way.
Step(t) ==
    \/ Trim(t)
    \/ \E raw \in RawOutputs : GetCompletion(t, raw)
    \/ \E error \in LLMFailures : GetCompletionFails(t, error)
    \/ ParseFailure(t)
    \/ ParseFatal(t)
    \/ FinalAnswer(t)
    \/ ToolUse(t)
    \/ ToolInvoke(t)
    \/ \E error \in ToolFailures : ToolInvokeFails(t, error)
    \/ Observe(t)
    \/ BudgetExhausted(t)

\* Serialized use of the instance: one caller, one invoke call after another.
Next ==
    \/ \E input \in Inputs(calls + 1) : Invoke("t1", input)
    \/ Step("t1")

Spec == Init /\ [][Next]_vars

\* Serialized use with every output type, for one llm (30 tokens of head room).
InitFallback ==
    InitWith({[model |-> "gpt-4-32k", max_tokens |-> 32738]}, AllOutputTypes)

SpecFallback == InitFallback /\ [][Next]_vars

\* Concurrent use of the instance: either caller may start an invoke call
\* whenever it has none under way, and the steps of the two calls interleave
\* at the statements of invoke. One llm (30 tokens of head room).
InitConcurrent ==
    InitWith({[model |-> "gpt-4-32k", max_tokens |-> 32738]}, OutputTypes)

\* The outputs the model gives in concurrent use: one of each parse result.
ConcurrentOutputs == {"garbage", "boom", "final", "use_search"}

\* One step of a caller's invoke call in concurrent use.
StepConcurrent(t) ==
    \/ Trim(t)
    \/ \E raw \in ConcurrentOutputs : GetCompletion(t, raw)
    \/ \E error \in LLMFailures : GetCompletionFails(t, error)
    \/ ParseFailure(t)
    \/ ParseFatal(t)
    \/ FinalAnswer(t)
    \/ ToolUse(t)
    \/ ToolInvoke(t)
    \/ \E error \in ToolFailures : ToolInvokeFails(t, error)
    \/ Observe(t)
    \/ BudgetExhausted(t)

\* A caller is blocked in get_completion or in tool.invoke, or has no call
\* under way: the points at which the other caller gets to run.
Yielding(t) == pc[t] \in {"idle", "done", "raised", "complete", "tool"}

\* Each caller makes one invoke call; the second may start before, while or
\* after the first runs. A caller runs from one blocking call to the next
\* while the other is blocked or has no call under way.
NextConcurrent ==
    \E t \in Threads :
        /\ \A u \in Threads \ {t} : Yielding(u)
        /\ \/ \E input \in Inputs(calls + 1) : pc[t] = "idle" /\ Invoke(t, input)
           \/ StepConcurrent(t)

SpecConcurrent == InitConcurrent /\ [][NextConcurrent]_vars


\* ------------------------------------------------------------------- claims
Last(seq) == seq[Len(seq)]

\* Does text contain part as a contiguous run of words?
Contains(text, part) ==
    \E i \in 0..(Len(text) - Len(part)) :
        \A j \in 1..Len(part) : text[i + j] = part[j]

RECURSIVE Count(_, _)
\* How many entries of seq are in the set kinds.
Count(seq, kinds) ==
    IF Len(seq) = 0 THEN 0
    ELSE (IF Head(seq) \in kinds THEN 1 ELSE 0) + Count(Tail(seq), kinds)

\* C1: a single invoke call makes at most iterations + 1 get_completion
\* calls, whatever the model, the parser and the tools do.
C1_AtMostIterationsPlusOneModelCalls ==
    \A t \in Threads : llm_calls[t] <= iterations + 1

\* C1 witness: a call that has made all iterations + 1 model calls with
\* iterations >= 1.
C1_Witness ==
    /\ iterations >= 1
    /\ llm_calls["t1"] = iterations + 1
    /\ pc["t1"] = "done"

\* C2 as claimed: an invoke call whose collaborators return, or fail with a
\* ValueError/TypeError parse failure only, never ends by raising: it ends
\* in FINAL_ANSWER_REACHED or BUDGET_EXHAUSTED with an AgentOutput.
C2_EndsOnlyInTheTwoTerminalStates ==
    \A t \in Threads :
        /\ pc[t] = "raised" => raised[t].from \in {"llm", "parser", "tool"}
        /\ pc[t] = "done" => returned[t].kind \in {"final", "fallback"}

\* C3: the message at index 0 of the log is always the system message that
\* Agent.create put there.
C3_SystemMessageStaysFirst ==
    /\ Len(messages) >= 1
    /\ messages[1] = SystemMessage

\* C3 witness: in the second call a trim has deleted every other message.
C3_Witness ==
    /\ calls = 2
    /\ pc["t1"] = "complete"
    /\ trimmed["t1"] >= 2
    /\ messages = <<SystemMessage>>

\* C4 as claimed: _trim_conversation always completes, and after it either
\* the log fits the budget or only the system message is left.
C4_TrimCompletesAndConverges ==
    \A t \in Threads :
        /\ ~(pc[t] = "raised" /\ raised[t].from = "trim")
        /\ pc[t] = "complete" =>
               \/ NumTokensFromMessages(messages) + llm.max_tokens
                      < ModelTokenLimit(llm.model)
               \/ Len(messages) = 1

\* C5: a parse failure with ValueError or TypeError never ends the call: the
\* call goes on to record the observation, re-enters the loop when the
\* failed iteration was below the configured maximum, passes the trim and
\* stands before the next model call; and a call whose parser failed first
\* and then gave a final answer returns that final answer.
C5_ParseFailureIsRetried ==
    \A t \in Threads :
        /\ (pc[t] = "raised" /\ raised[t].from = "parser") =>
               Parse(output[t].raw).error \notin {"ValueError", "TypeError"}
        /\ (pc[t] = "raised" /\ raised[t].from = "trim") => llm_calls[t] = 0
        /\ (/\ Len(events[t]) >= 1
            /\ Last(events[t]) = "parse_error"
            /\ Len(events[t]) <= iterations
            /\ llm_calls[t] = Len(events[t])) =>
               /\ pc[t] \in {"observe", "loop", "complete"}
               /\ pc[t] = "loop" =>
                      /\ iteration[t] <= iterations
                      /\ TrimConversation(messages, llm.max_tokens, llm.model).error
                             = "none"
        /\ (pc[t] = "done" /\ events[t] = <<"parse_error", "final">>) =>
               /\ returned[t].kind = "final"
               /\ returned[t].final_answer = <<"int", "42">>
               /\ llm_calls[t] = 2

\* C5 witness: the parser failed on the first output and gave a final answer
\* on the second; the call returned it.
C5_Witness ==
    /\ pc["t1"] = "done"
    /\ events["t1"] = <<"parse_error", "final">>
    /\ output["t1"].raw = "final"
    /\ returned["t1"].final_answer = <<"int", "42">>


\* The text of the unknown-tool observation for the tool "bogus" and the
\* registry search, calc.
BogusObservation ==
    <<"bogus", "tool doesn't exist. Try one of these tools:", "search", ", ", "calc">>

\* The last iteration of t's call asked for an unregistered tool.
AfterUnknownTool(t) ==
    /\ Len(events[t]) >= 1
    /\ Last(events[t]) = "unknown_tool"

\* What C6 says up to the end of the iteration: no tool invoked, no error
\* raised before the next model call, the observation text, the counter
\* incremented.
UnknownToolTurn(t) ==
    /\ tool_calls[t] = Count(events[t], {"tool_use"})
    /\ pc[t] = "raised" =>
           /\ raised[t].from \in {"llm", "parser"}
           /\ llm_calls[t] = Len(events[t]) + 1
    /\ (pc[t] = "observe" /\ llm_calls[t] = Len(events[t])) =>
           /\ observation[t] = BogusObservation
           /\ iteration[t] = Len(events[t]) - 1
    /\ (pc[t] # "observe" /\ llm_calls[t] = Len(events[t])) =>
           /\ iteration[t] = Len(events[t])
           /\ Last(steps) = <<"Observation:">> \o BogusObservation
    /\ (pc[t] \in {"loop", "done"} /\ llm_calls[t] = Len(events[t])) =>
           /\ Last(messages).role = "user"
           /\ Last(messages).by = id[t]
           /\ Contains(Last(messages).content, BogusObservation)

\* C6 as claimed: after a request for an unregistered tool no tool is
\* invoked, nothing is raised, the observation names the registered tools,
\* the counter is incremented, and the input of the next model call contains
\* that observation.
C6_UnknownToolObservationInNextInput ==
    \A t \in Threads :
        AfterUnknownTool(t) =>
            /\ UnknownToolTurn(t)
            /\ llm_calls[t] = Len(events[t]) + 1 =>
                   \E i \in 1..Len(llm_input[t]) :
                       Contains(llm_input[t][i].content, BogusObservation)

\* C6 amended: as claimed up to the end of the iteration, where the log ends
\* with a user message carrying the observation; the input of the next model
\* call ends with that message unless the trim before the call has cut the
\* log down to the system message alone.
C6_UnknownToolObservationUnlessTrimmed ==
    \A t \in Threads :
        AfterUnknownTool(t) =>
            /\ UnknownToolTurn(t)
            /\ (llm_calls[t] = Len(events[t]) + 1 /\ Len(llm_input[t]) > 1) =>
                   /\ Last(llm_input[t]).by = id[t]
                   /\ Contains(Last(llm_input[t]).content, BogusObservation)

\* C6 witness: the model call after an unknown-tool turn got the observation.
C6_Witness ==
    /\ AfterUnknownTool("t1")
    /\ llm_calls["t1"] = Len(events["t1"]) + 1
    /\ Len(llm_input["t1"]) > 1
    /\ Contains(Last(llm_input["t1"]).content, BogusObservation)
    /\ tool_calls["t1"] = 0

RECURSIVE CountNames(_, _)
\* How many reasoning steps of cot have the name.
CountNames(cot, name) ==
    IF Len(cot) = 0 THEN 0
    ELSE (IF Head(cot).name = name THEN 1 ELSE 0) + CountNames(Tail(cot), name)

ToolUseEvents == {"tool_use", "unknown_tool", "no_tools"}

\* C7 as claimed, for an agent with tools configured: every turn that
\* parsed as a tool-use request, whatever the tool name, has put one thought
\* step and right after it one tool-use step on the chain of thought when
\* its observation is recorded.
C7_EveryToolUseYieldsThoughtThenTool ==
    \A t \in Threads :
        (tools.present /\ pc[t] = "observe" /\ Last(events[t]) \in ToolUseEvents) =>
            /\ Len(chain_of_thought) >= 3
            /\ chain_of_thought[Len(chain_of_thought) - 1].name = "thought"
            /\ Last(chain_of_thought).name = "tool"

\* C7 amended: a tool-use request for a registered tool whose invocation
\* returns puts exactly one thought step and right after it exactly one
\* tool-use step (tool, tool input, tool response) on the chain of thought
\* before the observation is recorded; a request for an unregistered tool,
\* or with no tools configured, puts the thought step alone.
C7_RegisteredToolYieldsThoughtThenTool ==
    \A t \in Threads :
        id[t] = calls /\ calls > 0 =>
            /\ CountNames(chain_of_thought, "thought")
                   = Count(events[t], ToolUseEvents \cup {"final"})
            /\ CountNames(chain_of_thought, "tool")
                   = Count(events[t], {"tool_use"})
                     - (IF pc[t] = "tool" \/ raised[t].from = "tool" THEN 1 ELSE 0)
            /\ (pc[t] = "observe" /\ Last(events[t]) = "tool_use") =>
                   /\ chain_of_thought[Len(chain_of_thought) - 1]
                          = [name |-> "thought", content |-> <<"look-up">>, by |-> id[t]]
                   /\ Last(chain_of_thought)
                          = [name |-> "tool", content |-> <<"search", "query", "hits">>,
                             by |-> id[t]]
            /\ (pc[t] = "observe" /\ Last(events[t]) \in {"unknown_tool", "no_tools"}) =>
                   Last(chain_of_thought).name = "thought"

\* C7 witness: a registered tool has returned in the second iteration and
\* the observation is about to be recorded.
C7_Witness ==
    /\ pc["t1"] = "observe"
    /\ events["t1"] = <<"tool_use", "tool_use">>
    /\ CountNames(chain_of_thought, "tool") = 2

\* The prompt the c-th call formats from its inputs.
PromptOfCall(c) == IF c % 2 = 1 THEN <<"Question:", "alpha">> ELSE <<"Question:", "None">>

\* A trace of call c: its prompt step first, and steps of call c only.
OwnTrace(cot, c) ==
    /\ Len(cot) >= 1
    /\ cot[1] = [name |-> "prompt", content |-> PromptOfCall(c), by |-> c]
    /\ \A i \in 1..Len(cot) : cot[i].by = c

\* C8: every invoke call clears the step summaries and reseeds the chain of
\* thought with its own prompt step, so the chain of thought of a call, and
\* the trace it returns, start with that call's prompt step and hold no
\* step of an earlier call.
C8_TraceResetPerInvoke ==
    \A t \in Threads :
        id[t] = calls /\ calls > 0 =>
            /\ OwnTrace(chain_of_thought, id[t])
            /\ CountNames(chain_of_thought, "prompt") = 1
            /\ pc[t] = "done" => OwnTrace(returned[t].chain_of_thought, id[t])
            /\ Len(steps) <= 4 * Len(events[t])

\* C8 witness: the second call has returned a final answer after the first
\* call had left its own final answer behind.
C8_Witness ==
    /\ calls = 2
    /\ pc["t1"] = "done"
    /\ returned["t1"].kind = "final"
    /\ Len(returned["t1"].chain_of_thought) >= 3
    /\ \E i \in 1..Len(messages) : messages[i].role = "assistant" /\ messages[i].by = 1

\* C9 as claimed: the log is reset at the start of invoke, so when the first
\* trim deletes nothing the first model call of a call receives the system
\* message and this call's user prompt only.
C9_FirstInputIsSystemAndPromptOnly ==
    \A t \in Threads :
        (llm_calls[t] = 1 /\ trimmed[t] = 0 /\ pc[t] = "parse") =>
            llm_input[t] = <<SystemMessage,
                             [role |-> "user", content |-> prompt[t], by |-> id[t]]>>

\* C9 amended: the log is not reset at the start of invoke; invoke appends
\* this call's user prompt to the log as earlier calls left it, a trim that
\* deletes nothing leaves the log as it is, and the model call receives the
\* log as it then stands: system message, what earlier calls left, and this
\* call's prompt last.
C9_LogPersistsAcrossInvokes ==
    [][ /\ calls' = calls + 1 =>
            messages' = Append(messages, [role |-> "user", content |-> prompt'["t1"],
                                          by |-> calls'])
        /\ (pc["t1"] = "loop" /\ pc'["t1"] = "complete" /\ trimmed'["t1"] = 0) =>
            messages' = messages
        /\ llm_calls'["t1"] = llm_calls["t1"] + 1 =>
            llm_input'["t1"] = messages ]_vars

\* C9 witness: the first model call of the second call received, untrimmed,
\* the assistant message the first call left.
C9_Witness ==
    /\ calls = 2
    /\ llm_calls["t1"] = 1
    /\ trimmed["t1"] = 0
    /\ pc["t1"] = "parse"
    /\ Len(llm_input["t1"]) >= 4
    /\ \E i \in 1..Len(llm_input["t1"]) :
           llm_input["t1"][i].role = "assistant" /\ llm_input["t1"][i].by = 1

\* C10: a call has an AgentOutput exactly when it has returned; the answer
\* is the parsed final answer exactly when an iteration parsed as a final
\* answer, and the fallback answer is returned only after all iterations + 1
\* iterations ended without one.
C10_OneOutputFinalOrFallback ==
    \A t \in Threads :
        /\ returned[t] # NoReturn <=> pc[t] = "done"
        /\ pc[t] = "done" =>
               /\ returned[t].kind \in {"final", "fallback"}
               /\ returned[t].prompt = prompt[t]
               /\ returned[t].kind = "final" <=> Count(events[t], {"final"}) >= 1
               /\ returned[t].final_answer = <<"int", "42">>
                      <=> Count(events[t], {"final"}) >= 1
               /\ returned[t].kind = "final" =>
                      /\ Last(events[t]) = "final"
                      /\ Count(events[t], {"final"}) = 1
                      /\ Len(events[t]) <= iterations + 1
               /\ returned[t].kind = "fallback" =>
                      /\ Len(events[t]) = iterations + 1
                      /\ llm_calls[t] = iterations + 1
                      /\ iteration[t] = iterations + 1
                      /\ returned[t].final_answer # <<"int", "42">>

\* C10 witness: the budget of two iterations was used up, one of them a
\* tool call, and the fallback answer returned.
C10_Witness ==
    /\ pc["t1"] = "done"
    /\ returned["t1"].kind = "fallback"
    /\ iterations = 1
    /\ tool_calls["t1"] >= 1


\* C11: on budget exhaustion the answer for output type STRUCT with the
\* schema fields a, b is {"a": None, "b": None}; for ARRAY_STRUCT it is the
\* one-element list of that mapping; for the plain types it is None.
C11_FallbackShape ==
    \A t \in Threads :
        (pc[t] = "done" /\ returned[t].kind = "fallback") =>
            /\ output_type = "STRUCT" =>
                   returned[t].final_answer = <<"dict", "a", "None", "b", "None">>
            /\ output_type = "ARRAY_STRUCT" =>
                   returned[t].final_answer = <<"list", "dict", "a", "None", "b", "None">>
            /\ output_type \in {"STRING", "INT", "DATE", "TIMESTAMP", "NONE"} =>
                   returned[t].final_answer = <<"NoneType">>

\* C11 witness: a list-of-struct agent has used up its budget and returned
\* the one-element list.
C11_Witness ==
    /\ pc["t1"] = "done"
    /\ returned["t1"].kind = "fallback"
    /\ output_type = "ARRAY_STRUCT"
    /\ iterations = 1
    /\ returned["t1"].final_answer = <<"list", "dict", "a", "None", "b", "None">>


\* Every model output the call has parsed so far was unparsable.
OnlyParseErrors(t) == Count(events[t], {"parse_error"}) = Len(events[t])

\* C12: with iterations = 1 and a model whose every output is unparsable,
\* invoke makes exactly two model calls (iterations 0 and 1, both parse
\* failures), then returns the fallback answer, and the trace it returns
\* holds the prompt step alone.
C12_UnparsableScenario ==
    \A t \in Threads :
        (iterations = 1 /\ id[t] = calls /\ calls > 0 /\ OnlyParseErrors(t)) =>
            /\ llm_calls[t] <= 2
            /\ tool_calls[t] = 0
            /\ chain_of_thought
                   = <<[name |-> "prompt", content |-> prompt[t], by |-> id[t]]>>
            /\ pc[t] = "done" =>
                   /\ events[t] = <<"parse_error", "parse_error">>
                   /\ llm_calls[t] = 2
                   /\ iteration[t] = 2
                   /\ returned[t].kind = "fallback"
                   /\ returned[t].final_answer = <<"dict", "a", "None", "b", "None">>
                   /\ returned[t].chain_of_thought
                          = <<[name |-> "prompt", content |-> prompt[t], by |-> id[t]]>>

\* C12 witness: both outputs were unparsable, one with a ValueError and one
\* with a TypeError, and the call returned the fallback answer.
C12_Witness ==
    /\ iterations = 1
    /\ pc["t1"] = "done"
    /\ events["t1"] = <<"parse_error", "parse_error">>
    /\ llm_calls["t1"] = 2
    /\ Len(steps) = 2
    /\ steps[1] # steps[2]
    /\ returned["t1"].kind = "fallback"


\* The parser's verdict on the latest raw output of the call has been acted on.
PastParse(t) ==
    /\ id[t] = calls /\ calls > 0
    /\ llm_calls[t] > 0
    /\ pc[t] \in {"observe", "tool", "loop", "complete", "done"}

\* A call that ended with an error returned nothing; an error of the parser
\* that ended it is neither ValueError nor TypeError; and a call that went on
\* past the parser had an output that parsed or failed with one of those two.
C13_FatalErrorsState ==
    \A t \in Threads :
        /\ pc[t] = "raised" =>
               /\ returned[t] = NoReturn
               /\ raised[t].from \in {"trim", "llm", "parser", "tool"}
               /\ raised[t].from = "parser" =>
                      /\ raised[t].error = Parse(output[t].raw).error
                      /\ raised[t].error \notin {"ValueError", "TypeError"}
        /\ PastParse(t) =>
               Parse(output[t].raw).error \in {"none", "ValueError", "TypeError"}
        /\ pc[t] # "raised" => raised[t] = NoError

\* A model call or a tool call that is under way either returns or ends the
\* invoke call with the error; a call that ended with an error makes no
\* further model or tool call and returns nothing.
C13_FatalErrorsStep ==
    \A t \in Threads :
        /\ (pc[t] # "raised" /\ pc'[t] = "raised") =>
               /\ returned'[t] = NoReturn
               /\ raised'[t].from = "llm" =>
                      (pc[t] = "complete" /\ raised'[t].error \in LLMFailures)
               /\ raised'[t].from = "tool" =>
                      (pc[t] = "tool" /\ raised'[t].error \in ToolFailures)
        /\ (pc[t] = "raised" /\ calls' = calls) =>
               /\ pc'[t] = "raised"
               /\ llm_calls'[t] = llm_calls[t]
               /\ tool_calls'[t] = tool_calls[t]
               /\ returned'[t] = NoReturn

\* C13: only a ValueError or TypeError of the output parser is recovered in
\* the loop; a failure of the model call or of a tool (of any kind, ValueError
\* and TypeError included) and any other error of the parser ends the invoke
\* call without an AgentOutput, and no model or tool call follows it.
C13_OnlyParserValueAndTypeErrorsRecovered ==
    [](C13_FatalErrorsState) /\ [][C13_FatalErrorsStep]_vars

\* C13 witness: the parser's ValueError was recovered in iteration 0, and the
\* ValueError of the model call of iteration 1 ended the call.
C13_Witness ==
    /\ pc["t1"] = "raised"
    /\ raised["t1"] = [error |-> "ValueError", from |-> "llm"]
    /\ events["t1"] = <<"parse_error">>
    /\ llm_calls["t1"] = 2
    /\ returned["t1"] = NoReturn


\* C14: two invoke calls on one instance race on the shared chat. A call that
\* ran while no other call of the instance ran (serialized use) returns a
\* trace that starts with its own prompt step and holds its own steps only;
\* a call that overlapped another may return a trace that starts with the
\* other call's prompt step and mixes the steps of both (C14_Witness).
C14_SerializedCallsReturnOwnTrace ==
    \A t \in Threads :
        (pc[t] = "done" /\ ~overlap[t]) =>
            OwnTrace(returned[t].chain_of_thought, id[t])

\* C14 witness: caller t1 started call 1, caller t2 started call 2 while call
\* 1 was blocked, and the trace call 1 returned starts with the prompt step of
\* call 2 and ends with the final-answer step of call 1.
C14_Witness ==
    /\ pc["t1"] = "done" /\ id["t1"] = 1 /\ id["t2"] = 2
    /\ overlap["t1"] /\ overlap["t2"]
    /\ returned["t1"].kind = "final"
    /\ returned["t1"].prompt = PromptOfCall(1)
    /\ returned["t1"].chain_of_thought[1]
           = [name |-> "prompt", content |-> PromptOfCall(2), by |-> 2]
    /\ Last(returned["t1"].chain_of_thought).name = "final_answer"
    /\ Last(returned["t1"].chain_of_thought).by = 1
    /\ ~OwnTrace(returned["t1"].chain_of_thought, 1)


\* C15 as claimed: when an iteration's trim finds the system message alone
\* still over the budget (every other message removed), the trim ends
\* without an error and the call goes on to the model call with the log
\* that holds the system message alone.
C15_TrimBoundaryProceedsToModelCall ==
    [][\A t \in Threads :
          ( /\ pc[t] = "loop" /\ pc'[t] # "loop"
            /\ LoopCondition(iteration[t], iterations)
            /\ OverBudget(<<messages[1]>>, llm.max_tokens, llm.model) ) =>
              /\ pc'[t] = "complete"
              /\ raised'[t] = NoError
              /\ messages' = <<messages[1]>>]_vars


\* The message of the error the parser raises on a raw output.
ParseErrorMessage(raw) ==
    CASE raw = "garbage" -> "invalid-format"
      [] raw = "badtype" -> "wrong-type"
      [] OTHER -> "no-error"

\* The iteration the call is in failed to parse and is not yet counted.
InFailedParse(t) ==
    /\ pc[t] = "observe"
    /\ Len(events[t]) > 0
    /\ Last(events[t]) = "parse_error"

\* C16: a recoverable parse failure records nothing but one observation
\* summary. The step that catches the error changes neither the chain of
\* thought nor the summaries nor the log and invokes no tool; the step that
\* ends the iteration appends the one summary "Observation: <the error's
\* message>", leaves the chain of thought alone and adds one to the
\* iteration counter.
C16_ParseFailureRecordsOnlyObservation ==
    [][\A t \in Threads :
          /\ (pc[t] = "parse" /\ InFailedParse(t)') =>
                 /\ output[t].raw \in {"garbage", "badtype"}
                 /\ observation'[t] = <<ParseErrorMessage(output[t].raw)>>
                 /\ UNCHANGED <<chat, tool_calls, iteration>>
          /\ (InFailedParse(t) /\ pc'[t] # pc[t]) =>
                 /\ pc'[t] = "loop"
                 /\ steps' = Append(steps, <<"Observation:",
                                             ParseErrorMessage(output[t].raw)>>)
                 /\ iteration'[t] = iteration[t] + 1
                 /\ UNCHANGED <<chain_of_thought, tool_calls>>]_vars

\* C16 witness: iteration 0 failed with the parser's TypeError and has been
\* counted; the summaries hold the one observation, the chain of thought the
\* prompt step alone.
C16_Witness ==
    /\ pc["t1"] = "loop"
    /\ iteration["t1"] = 1
    /\ events["t1"] = <<"parse_error">>
    /\ output["t1"].raw = "badtype"
    /\ steps = << <<"Observation:", "wrong-type">> >>
    /\ Len(chain_of_thought) = 1
    /\ tool_calls["t1"] = 0


RECURSIVE CountRole(_, _, _)
\* How many messages of msgs have the role and were written by call c.
CountRole(msgs, role, c) ==
    IF Len(msgs) = 0 THEN 0
    ELSE (IF Head(msgs).role = role /\ Head(msgs).by = c THEN 1 ELSE 0)
         + CountRole(Tail(msgs), role, c)

\* The step in which the parse result is the final answer 42.
C17_FinalAnswerStep(t) ==
    (pc[t] = "parse" /\ pc'[t] = "done") =>
        /\ chain_of_thought' = chain_of_thought \o
               << [name |-> "thought", content |-> <<"I-know">>, by |-> id[t]],
                  [name |-> "final_answer", content |-> <<"42">>, by |-> id[t]] >>
        /\ messages' = Append(messages,
                              [role |-> "assistant", content |-> <<"42">>, by |-> id[t]])
        /\ steps' = Append(steps, <<"Thought:", "I-know">>)
        /\ returned'[t] = [kind |-> "final", prompt |-> prompt[t],
                           final_answer |-> <<"int", "42">>,
                           chain_of_thought |-> chain_of_thought']
        /\ UNCHANGED <<iteration, tool_calls, llm_calls>>

\* The step in which the loop condition fails.
C17_BudgetExhaustedStep(t) ==
    (pc[t] = "loop" /\ pc'[t] = "done") =>
        /\ returned'[t].kind = "fallback"
        /\ returned'[t].chain_of_thought = chain_of_thought
        /\ CountNames(chain_of_thought, "final_answer") = 0
        /\ CountRole(messages, "assistant", id[t]) = 0
        /\ UNCHANGED <<chat, iteration, tool_calls, llm_calls>>

\* A call that returned makes no further model or tool call.
C17_ReturnedStep(t) ==
    (pc[t] = "done" /\ calls' = calls) =>
        /\ pc'[t] = "done"
        /\ UNCHANGED <<chat, iteration, tool_calls, llm_calls, returned>>

\* C17: a final answer appends one thought step and then one final-answer
\* step to the trace and one assistant message with the stringified answer
\* at the end of the log, and invoke returns in that iteration: no tool call,
\* no observation, no increment of the iteration counter, no further model
\* call. The exit on an exhausted budget appends no final-answer step and no
\* assistant message.
C17_FinalAnswerReturnsAtOnce ==
    [][\A t \in Threads :
          /\ C17_FinalAnswerStep(t)
          /\ C17_BudgetExhaustedStep(t)
          /\ C17_ReturnedStep(t)]_vars

\* C17 witness: the call used a tool in iteration 0 and got the final answer
\* in iteration 1; it returned with the iteration counter still at 1 and
\* with the assistant message last in the log.
C17_Witness ==
    /\ pc["t1"] = "done"
    /\ events["t1"] = <<"tool_use", "final">>
    /\ iteration["t1"] = 1
    /\ llm_calls["t1"] = 2
    /\ returned["t1"].kind = "final"
    /\ Last(messages) = [role |-> "assistant", content |-> <<"42">>, by |-> id["t1"]]
    /\ Last(chain_of_thought).name = "final_answer"
    /\ CountNames(chain_of_thought, "final_answer") = 1


\* Tool calls follow model calls: a tool call is under way or made only for
\* an iteration whose model call returned a tool-use request for a registered
\* tool, one per such iteration at most, and never more than the model calls
\* completed.
C18_ToolAfterModelState ==
    \A t \in Threads :
        /\ Len(events[t]) <= llm_calls[t]
        /\ llm_calls[t] <= Len(events[t]) + 1
        /\ tool_calls[t] <= Len(events[t])
        /\ tool_calls[t] = Count(events[t], {"tool_use"})
                               - (IF pc[t] = "tool" THEN 1 ELSE 0)
        /\ pc[t] = "tool" =>
               /\ llm_calls[t] = Len(events[t])
               /\ Last(events[t]) = "tool_use"
               /\ output[t].raw = "use_search"
               /\ output[t].parsed.kind = "tool_use"
               /\ output[t].parsed.tool = "search"
               /\ tools.present
               /\ \E i \in 1..Len(tools.names) : tools.names[i] = "search"

\* A tool call is made from the tool-use branch only and is not a model
\* call; a model call is made from the top of an iteration only, when every
\* earlier iteration, and its tool call if it had one, is over.
C18_ToolAfterModelStep ==
    \A t \in Threads :
        calls' = calls =>
            /\ tool_calls'[t] # tool_calls[t] =>
                   /\ pc[t] = "tool"
                   /\ tool_calls'[t] = tool_calls[t] + 1
                   /\ llm_calls'[t] = llm_calls[t]
            /\ llm_calls'[t] # llm_calls[t] =>
                   /\ pc[t] = "complete"
                   /\ llm_calls'[t] = llm_calls[t] + 1
                   /\ llm_calls[t] = Len(events[t])
                   /\ tool_calls[t] = Count(events[t], {"tool_use"})

\* C18: within one invoke a tool is invoked only after the iteration's model
\* call returned an output that parsed as a tool-use request naming a
\* registered tool; at most one tool call per model call, before the next
\* model call; so tool calls never outnumber completed model calls and a
\* model call and a tool call are never under way together.
C18_ToolCallsFollowModelCalls ==
    [](C18_ToolAfterModelState) /\ [][C18_ToolAfterModelStep]_vars

\* C18 witness: the tool of iteration 0 was invoked, and the tool of
\* iteration 1 is about to be, after the second model call returned.
C18_Witness ==
    /\ pc["t1"] = "tool"
    /\ events["t1"] = <<"tool_use", "tool_use">>
    /\ llm_calls["t1"] = 2
    /\ tool_calls["t1"] = 1


\* The iteration the call is in asked for a tool though none is configured,
\* and is not yet counted.
InToolUseWithoutTools(t) ==
    /\ pc[t] = "observe"
    /\ Len(events[t]) > 0
    /\ Last(events[t]) = "no_tools"

\* An agent without tools never invokes one and records no tool step.
C19_NoToolsState ==
    \A t \in Threads :
        ~tools.present =>
            /\ tool_calls[t] = 0
            /\ pc[t] # "tool"
            /\ raised[t].from # "tool"
            /\ CountNames(chain_of_thought, "tool") = 0
            /\ Count(events[t], {"tool_use", "unknown_tool"}) = 0

\* The steps of an iteration that asks for a tool though none is configured:
\* the thought is recorded and no error raised; the summary "Observation:
\* None" is recorded and the iteration counted; the loop goes on to the next
\* model call or to the exhausted-budget exit.
C19_NoToolsStep ==
    \A t \in Threads :
        /\ ( /\ pc[t] = "parse" /\ pc'[t] # "parse" /\ ~tools.present
             /\ output[t].raw \in {"use_search", "use_bogus"} ) =>
               /\ InToolUseWithoutTools(t)'
               /\ raised'[t] = NoError
               /\ observation'[t] = <<"None">>
               /\ Len(chain_of_thought') = Len(chain_of_thought) + 1
               /\ Last(chain_of_thought').name = "thought"
               /\ Last(chain_of_thought').by = id[t]
               /\ UNCHANGED <<messages, tool_calls, iteration>>
        /\ (InToolUseWithoutTools(t) /\ pc'[t] # pc[t]) =>
               /\ pc'[t] = "loop"
               /\ steps' = Append(steps, <<"Observation:", "None">>)
               /\ iteration'[t] = iteration[t] + 1
               /\ UNCHANGED <<chain_of_thought, tool_calls, raised>>
        /\ ( /\ pc[t] = "loop" /\ pc'[t] # "loop" /\ calls' = calls
             /\ Len(events[t]) > 0 /\ Last(events[t]) = "no_tools" ) =>
               pc'[t] = IF iteration[t] <= iterations THEN "complete" ELSE "done"

\* C19: with no tools configured a tool-use request is tolerated: no tool is
\* invoked and no error raised, one thought step and no tool step is
\* recorded, the turn's observation is None ("Observation: None"), the
\* iteration counter is incremented and the loop continues.
C19_ToolUseWithoutToolsIsTolerated ==
    [](C19_NoToolsState) /\ [][C19_NoToolsStep]_vars

\* C19 witness: an agent without tools whose model asked for a tool in
\* iteration 0 and gave the final answer in iteration 1.
C19_Witness ==
    /\ ~tools.present
    /\ pc["t1"] = "done"
    /\ events["t1"] = <<"no_tools", "final">>
    /\ returned["t1"].kind = "final"
    /\ tool_calls["t1"] = 0
    /\ steps[2] = <<"Observation:", "None">>
    /\ CountNames(chain_of_thought, "thought") = 2
    /\ CountNames(chain_of_thought, "tool") = 0

=============================================================================
